---- MODULE Spec2Model ----
(***************************************************************************)
(* Model of the PCLTTM progressive mesh compressor: the MeshTopology       *)
(* adjacency/orientation structure (PCLTTM/mesh.py), the Patch ring walk   *)
(* (PCLTTM/data_structures/patch.py), the Retriangulator                   *)
(* (PCLTTM/retriangulator.py) and the conquest engine                      *)
(* (PCLTTM/__init__.py).                                                   *)
(*                                                                         *)
(* Vertices are the integers 1..MaxVertex (a Vertex is identified by its   *)
(* position, so an integer stands for a position); None is 0.  Where the  *)
(* identity of the entities is itself the question (Vertex.__eq__,         *)
(* Face.__eq__), an object is a record with its fields and its id.         *)
(***************************************************************************)
EXTENDS Integers, Sequences, FiniteSets, TLC

VARIABLES vertex_connections, orientations, committed_states,
          retriangulation_tags, state_flags, FiFo, visited_gates,
          seed, ngates, passes, pc, exc, last, nops, input, parsed, pyset

vars == <<vertex_connections, orientations, committed_states,
          retriangulation_tags, state_flags, FiFo, visited_gates,
          seed, ngates, passes, pc, exc, last, nops, input, parsed, pyset>>

meshVars == <<vertex_connections, orientations, committed_states>>
passVars == <<FiFo, visited_gates, seed, ngates, passes>>

-----------------------------------------------------------------------------
(* Bounds *)

MaxOps == 2

(* the largest polygon under a bipyramid among the input meshes *)
MaxGon == 6

(* the largest one among the meshes the topology calls are tried on *)
MaxSmallGon == 4

(* the largest one among the meshes loaded with their faces in any order *)
MaxLoadGon == 3

(* the objects added to one Python set *)
MaxAdds == 3

(* the calls of compress() one engine makes *)
MaxPasses == 2

-----------------------------------------------------------------------------
(* Values *)

None == 0

Default == "Default"
Plus == "Plus"
Minus == "Minus"

Free == "Free"
Conquered == "Conquered"

NoPair == <<None, None>>

-----------------------------------------------------------------------------
(* Python dict helpers *)

DictGet(d, k, dflt) == IF k \in DOMAIN d THEN d[k] ELSE dflt

DictPut(d, k, v) == (k :> v) @@ d

DictDel(d, K) == [k \in (DOMAIN d) \ K |-> d[k]]

Range(s) == {s[i] : i \in DOMAIN s}


-----------------------------------------------------------------------------
(* MeshTopology.State: the two maps of the active state *)

MkState(vc, o) == [vertex_connections |-> vc, orientations |-> o]

EmptyState == MkState(<<>>, <<>>)

ActiveState == MkState(vertex_connections, orientations)

Vertices(s) == DOMAIN s.vertex_connections

(* MeshTopology.get_valence *)
get_valence(s, v) == Cardinality(DictGet(s.vertex_connections, v, {}))

(* MeshTopology.get_connected_vertices *)
get_connected_vertices(s, v) == DictGet(s.vertex_connections, v, {})

(* MeshTopology.get_oriented_vertices *)
get_oriented_vertices(s, e) == DictGet(s.orientations, e, NoPair)

(* MeshTopology.add_vertex with no connections *)
add_vertex(s, v) ==
    IF v \notin Vertices(s)
    THEN MkState(DictPut(s.vertex_connections, v, {}), s.orientations)
    ELSE s

(* a mutated add_edge: only fromV is looked up in the mesh *)
add_edge_half_checked(s, fromV, toV) ==
    IF fromV \notin Vertices(s)
    THEN [s |-> s, ret |-> FALSE]
    ELSE LET vc1 == [s.vertex_connections EXCEPT ![fromV] = @ \cup {toV}]
             vc2 == IF toV \in Vertices(s)
                    THEN [vc1 EXCEPT ![toV] = @ \cup {fromV}]
                    ELSE vc1
         IN  [s |-> MkState(vc2, s.orientations), ret |-> TRUE]

(* MeshTopology.add_edge: [s |-> new state, ret |-> returned bool] *)
add_edge(s, fromV, toV) ==
    IF fromV \notin Vertices(s) \/ toV \notin Vertices(s)
    THEN [s |-> s, ret |-> FALSE]
    ELSE LET vc1 == [s.vertex_connections EXCEPT ![fromV] = @ \cup {toV}]
             vc2 == [vc1 EXCEPT ![toV] = @ \cup {fromV}]
         IN  [s |-> MkState(vc2, s.orientations), ret |-> TRUE]

(* a mutated comparison: neighbours of valence 3 are accepted *)
can_remove_vertex_weak(s, v) ==
    /\ v \in Vertices(s)
    /\ \A n \in s.vertex_connections[v] :
          Cardinality(s.vertex_connections[n]) >= 3

(* a mutated test: the vertex is not looked up in the mesh *)
can_remove_vertex_any(s, v) ==
    \A n \in DictGet(s.vertex_connections, v, {}) :
        Cardinality(s.vertex_connections[n]) > 3

(* MeshTopology.can_remove_vertex *)
can_remove_vertex(s, v) ==
    /\ v \in Vertices(s)
    /\ \A n \in s.vertex_connections[v] :
          Cardinality(s.vertex_connections[n]) > 3

(* a mutated remove_vertex: the neighbours keep the vertex in their sets *)
remove_vertex_keeps_links(s, v, force) ==
    IF ~can_remove_vertex(s, v) /\ ~force THEN s
    ELSE IF v \notin Vertices(s) THEN s
    ELSE LET neighbors == s.vertex_connections[v]
             dead == UNION {{<<v, n>>, <<n, v>>} : n \in neighbors}
         IN  MkState(DictDel(s.vertex_connections, {v}),
                     DictDel(s.orientations, dead))

(* a mutated remove_vertex: can_remove_vertex is not consulted *)
remove_vertex_unguarded(s, v, force) ==
    IF v \notin Vertices(s) THEN s
    ELSE LET neighbors == s.vertex_connections[v]
             vc1 == [u \in Vertices(s) |->
                       IF u \in neighbors
                       THEN s.vertex_connections[u] \ {v}
                       ELSE s.vertex_connections[u]]
             dead == UNION {{<<v, n>>, <<n, v>>} : n \in neighbors}
         IN  MkState(DictDel(vc1, {v}), DictDel(s.orientations, dead))

(* MeshTopology.remove_vertex *)
remove_vertex(s, v, force) ==
    IF ~can_remove_vertex(s, v) /\ ~force THEN s
    ELSE IF v \notin Vertices(s) THEN s
    ELSE LET neighbors == s.vertex_connections[v]
             vc1 == [u \in Vertices(s) |->
                       IF u \in neighbors
                       THEN s.vertex_connections[u] \ {v}
                       ELSE s.vertex_connections[u]]
             dead == UNION {{<<v, n>>, <<n, v>>} : n \in neighbors}
         IN  MkState(DictDel(vc1, {v}), DictDel(s.orientations, dead))

(* MeshTopology.can_remove_edge *)
can_remove_edge(s, fromV, toV) ==
    /\ fromV \in Vertices(s)
    /\ toV \in s.vertex_connections[fromV]
    /\ Cardinality(s.vertex_connections[fromV]) > 3
    /\ Cardinality(s.vertex_connections[toV]) > 3

(* MeshTopology._remove_edge_vertices, reached through remove_edge *)
remove_edge(s, fromV, toV, force) ==
    IF ~can_remove_edge(s, fromV, toV) /\ ~force THEN s
    ELSE LET o1 == DictDel(s.orientations, {<<fromV, toV>>, <<toV, fromV>>})
             vc1 == [u \in Vertices(s) |->
                       IF u = fromV THEN s.vertex_connections[u] \ {toV}
                       ELSE s.vertex_connections[u]]
             vc2 == [u \in Vertices(s) |->
                       IF u = toV THEN vc1[u] \ {fromV} ELSE vc1[u]]
         IN  MkState(vc2, o1)


-----------------------------------------------------------------------------
(* MeshTopology.set_orientation *)

(* The second argument as the caller wrote it: a tuple (left, right), or a *)
(* single Vertex object, which "third_vertex, other_vertex = left_right"   *)
(* cannot unpack (Vertex defines neither __iter__ nor __getitem__).        *)
PairArg(l, r) == [pair |-> TRUE, l |-> l, r |-> r]
VertexArg(v) == [pair |-> FALSE, l |-> v, r |-> None]

NoExc == "none"
TypeError == "TypeError"
AttributeError == "AttributeError"
AssertionError == "AssertionError"

(* The ten dict writes of set_orientation, in program order; each temp is  *)
(* read from the dict as it stands when the code reads it.                 *)

(* a mutated first pair of writes: the entry of (toV, fromV) is not written *)
set_orientation_pair_oneway(o, fromV, toV, third_vertex, other_vertex) ==
    DictPut(o, <<fromV, toV>>, <<third_vertex, other_vertex>>)

(* writes 1 and 2: the edge and its opposite *)
set_orientation_pair(o, fromV, toV, third_vertex, other_vertex) ==
    DictPut(DictPut(o, <<fromV, toV>>, <<third_vertex, other_vertex>>),
            <<toV, fromV>>, <<other_vertex, third_vertex>>)

(* writes 3..6: the left slots; temp1..temp4 are read before any of them *)
set_orientation_lefts(o, fromV, toV, third_vertex, other_vertex) ==
    [k \in DOMAIN o \cup {<<toV, third_vertex>>, <<third_vertex, fromV>>}
               \cup (IF other_vertex # None
                     THEN {<<other_vertex, toV>>, <<fromV, other_vertex>>}
                     ELSE {}) |->
        IF other_vertex # None /\ k = <<fromV, other_vertex>>
        THEN <<toV, DictGet(o, k, NoPair)[2]>>
        ELSE IF other_vertex # None /\ k = <<other_vertex, toV>>
        THEN <<fromV, DictGet(o, k, NoPair)[2]>>
        ELSE IF k = <<third_vertex, fromV>>
        THEN <<toV, DictGet(o, k, NoPair)[2]>>
        ELSE IF k = <<toV, third_vertex>>
        THEN <<fromV, DictGet(o, k, NoPair)[2]>>
        ELSE o[k]]

(* a mutated set_orientation: writes 7..10 are left out *)
set_orientation_rights_skipped(o, fromV, toV, third_vertex, other_vertex) ==
    o

(* writes 7..10: the right slots; temp5..temp8 are read before any of them *)
set_orientation_rights(o, fromV, toV, third_vertex, other_vertex) ==
    [k \in DOMAIN o \cup {<<third_vertex, toV>>, <<fromV, third_vertex>>}
               \cup (IF other_vertex # None
                     THEN {<<toV, other_vertex>>, <<other_vertex, fromV>>}
                     ELSE {}) |->
        IF other_vertex # None /\ k = <<other_vertex, fromV>>
        THEN <<DictGet(o, k, NoPair)[1], toV>>
        ELSE IF other_vertex # None /\ k = <<toV, other_vertex>>
        THEN <<DictGet(o, k, NoPair)[1], fromV>>
        ELSE IF k = <<fromV, third_vertex>>
        THEN <<DictGet(o, k, NoPair)[1], toV>>
        ELSE IF k = <<third_vertex, toV>>
        THEN <<DictGet(o, k, NoPair)[1], fromV>>
        ELSE o[k]]

(* a mutated set_orientation: a None slot is written as None instead of   *)
(* being kept from the edge's entry                                        *)
set_orientation_writes_nokeep(o, fromV, toV, l, r) ==
    set_orientation_rights(
        set_orientation_lefts(
            set_orientation_pair(o, fromV, toV, l, r), fromV, toV, l, r),
        fromV, toV, l, r)

set_orientation_writes(o, fromV, toV, l, r) ==
    LET third_vertex == IF l = None THEN DictGet(o, <<fromV, toV>>, NoPair)[1] ELSE l
        other_vertex == IF r = None THEN DictGet(o, <<fromV, toV>>, NoPair)[2] ELSE r
    IN  set_orientation_rights(
            set_orientation_lefts(
                set_orientation_pair(o, fromV, toV, third_vertex, other_vertex),
                fromV, toV, third_vertex, other_vertex),
            fromV, toV, third_vertex, other_vertex)

(* [s |-> state after the call, ret |-> returned bool, exc |-> raised]     *)
set_orientation(s, fromV, toV, left_right) ==
    IF fromV \notin Vertices(s) \/ toV \notin Vertices(s)
    THEN [s |-> s, ret |-> FALSE, exc |-> NoExc]
    ELSE IF ~left_right.pair
    THEN [s |-> s, ret |-> FALSE, exc |-> TypeError]
    ELSE [s |-> MkState(s.vertex_connections,
                        set_orientation_writes(s.orientations, fromV, toV,
                                               left_right.l, left_right.r)),
          ret |-> TRUE, exc |-> NoExc]

-----------------------------------------------------------------------------
(* Faces.  A Face compares and hashes by its vertex set (face.py), so a    *)
(* face is the set of its vertices.                                        *)

Face(a, b, c) == {a, b, c}

(* Face.next_vertex, on a face of three distinct vertices *)
next_vertex(f, e) ==
    IF e[1] \notin f \/ e[2] \notin f THEN None
    ELSE CHOOSE v \in f : v # e[1] /\ v # e[2]

(* MeshTopology.get_oriented_faces as the set of the faces that are not None *)
oriented_faces_of(s, e) ==
    LET lr == get_oriented_vertices(s, e)
    IN  (IF lr[1] # None THEN {Face(e[1], e[2], lr[1])} ELSE {})
        \cup (IF lr[2] # None THEN {Face(e[2], e[1], lr[2])} ELSE {})

(* the faces found along the edges from fromV to the neighbours in T *)
faces_along(s, fromV, T) ==
    UNION {oriented_faces_of(s, <<fromV, toV>>) : toV \in T}

(* MeshTopology.get_faces visits the neighbours in the set's iteration     *)
(* order and stops before the next one once valence faces are collected.   *)
(* can_visit(s, fromV, T): some order visits exactly the neighbours in T   *)
(* without stopping before the last of them.                               *)
RECURSIVE can_visit(_, _, _)
can_visit(s, fromV, T) ==
    \/ T = {}
    \/ \E toV \in T :
          /\ Cardinality(faces_along(s, fromV, T \ {toV}))
                 # get_valence(s, fromV)
          /\ can_visit(s, fromV, T \ {toV})

(* MeshTopology.get_faces: the set of the face sets it can return, one per *)
(* iteration order (a single one when the star is a closed fan)            *)
get_faces(s, fromV) ==
    IF fromV \notin Vertices(s) THEN {{}}
    ELSE LET neighbors == s.vertex_connections[fromV]
         IN  {faces_along(s, fromV, T) :
                T \in {T \in SUBSET neighbors :
                         /\ \/ T = neighbors
                            \/ Cardinality(faces_along(s, fromV, T))
                                   = get_valence(s, fromV)
                         /\ can_visit(s, fromV, T)}}

-----------------------------------------------------------------------------
(* Patch (data_structures/patch.py) *)

(* The walk of Patch.surrounding_vertices after its first face: each step  *)
(* takes a remaining face holding the current vertex and the center (any   *)
(* one of them when several do) and appends its third vertex.              *)
RECURSIVE ring_walk(_, _, _, _, _)
ring_walk(remaining, center, current, sequence, steps) ==
    LET cands == {f \in remaining : current \in f /\ center \in f}
    IN  IF steps = 0 \/ cands = {}
        THEN {sequence}
        ELSE UNION {LET nv == next_vertex(f, <<current, center>>)
                    IN  ring_walk(remaining \ {f}, center, nv,
                                  Append(sequence, nv), steps - 1)
                    : f \in cands}

(* a mutated surrounding_vertices: the last vertex appended is kept *)
surrounding_vertices_unpopped(center, faces, starting_edge) ==
    LET current_face == Face(starting_edge[1], starting_edge[2], center)
    IN  IF None \in Range(starting_edge) THEN {<<>>}
        ELSE IF faces = {} \/ current_face \notin faces THEN {<<>>}
        ELSE ring_walk(faces \ {current_face}, center, starting_edge[2],
                       <<starting_edge[1], starting_edge[2]>>,
                       Cardinality(faces \ {current_face}))

(* Patch.surrounding_vertices on a patch (center, faces): the set of the   *)
(* lists it can return                                                     *)
surrounding_vertices(center, faces, starting_edge) ==
    LET current_face == Face(starting_edge[1], starting_edge[2], center)
    IN  IF None \in Range(starting_edge) THEN {<<>>}
        ELSE IF faces = {} \/ current_face \notin faces THEN {<<>>}
        ELSE {SubSeq(sq, 1, Len(sq) - 1) :
                sq \in ring_walk(faces \ {current_face}, center,
                                 starting_edge[2],
                                 <<starting_edge[1], starting_edge[2]>>,
                                 Cardinality(faces \ {current_face}))}

(* Patch.surrounding_edges, on the list surrounding_vertices returned *)
surrounding_edges(verts) ==
    IF verts = <<>> THEN <<>>
    ELSE [i \in 1..Len(verts) |->
            IF i < Len(verts) THEN <<verts[i], verts[i + 1]>>
            ELSE <<verts[i], verts[1]>>]

Gate(edge, front_vertex) == [edge |-> edge, front_vertex |-> front_vertex]

NoGate == Gate(NoPair, None)

(* A Gate object: Gate defines __hash__ but no __eq__, so two gates are    *)
(* equal only when they are the same object; id tells the objects apart.   *)
GateObj(g, id) ==
    [edge |-> g.edge, front_vertex |-> g.front_vertex, id |-> id]

(* the vertex output_gates finds across one ring edge, None when no face *)
outward_vertex(s, center, edge) ==
    LET lr == get_oriented_vertices(s, edge)
    IN  IF lr[2] = center \/ lr[2] = None THEN lr[1] ELSE lr[2]

RECURSIVE gates_of_edges(_, _, _)
gates_of_edges(s, center, edges) ==
    IF edges = <<>> THEN <<>>
    ELSE LET edge == Head(edges)
             ov == outward_vertex(s, center, edge)
             rest == gates_of_edges(s, center, Tail(edges))
         IN  IF ov = None THEN rest
             ELSE <<Gate(<<edge[2], edge[1]>>, ov)>> \o rest

(* Patch.output_gates, on the list surrounding_vertices returned *)
output_gates(s, center, verts) ==
    LET all == gates_of_edges(s, center, surrounding_edges(verts))
    IN  IF all = <<>> THEN <<>> ELSE Tail(all)


-----------------------------------------------------------------------------
(* Retriangulator (retriangulator.py) *)

alternance(t) == IF t = Minus THEN Plus ELSE Minus

(* tag_propagation: the end tags after the normalisation of Default *)
norm_tags(left_tag, right_tag) ==
    IF left_tag = Default /\ right_tag = Default THEN <<Plus, Minus>>
    ELSE IF left_tag = Default THEN <<alternance(right_tag), right_tag>>
    ELSE IF right_tag = Default THEN <<left_tag, alternance(left_tag)>>
    ELSE <<left_tag, right_tag>>

(* a mutated start: the alternation starts from the left tag *)
start_of_left(left_tag, right_tag) ==
    [tag |-> norm_tags(left_tag, right_tag)[1], side |-> "right"]

(* tag_propagation: [tag |-> start_tag, side |-> start_side] *)
start_of(left_tag, right_tag) ==
    LET n == norm_tags(left_tag, right_tag)
    IN  IF n[1] # n[2] /\ n[1] = Minus
        THEN [tag |-> n[1], side |-> "left"]
        ELSE [tag |-> n[2], side |-> "right"]

(* the alternation written over the list vs, first element first *)
RECURSIVE alternate(_, _, _)
alternate(tags, vs, tag) ==
    IF vs = <<>> THEN tags
    ELSE alternate(DictPut(tags, Head(vs), alternance(tag)),
                   Tail(vs), alternance(tag))

Reverse(sq) == [i \in 1..Len(sq) |-> sq[Len(sq) + 1 - i]]

(* Retriangulator.tag_propagation: the tag map after the call *)
tag_propagation(tags, pov, left_tag, right_tag) ==
    LET st == start_of(left_tag, right_tag)
        inner == SubSeq(pov, 2, Len(pov) - 1)
    IN  IF st.side = "right"
        THEN alternate(tags, inner, st.tag)
        ELSE alternate(tags, Reverse(inner), st.tag)

(* One call of the table: add_edge(pov[i], pov[j]) or                      *)
(* set_orientation((pov[i], pov[j]), pov[k]), indices as in the source.    *)
E(i, j) == [op |-> "add_edge", i |-> i, j |-> j, k |-> 0]
O(i, j, k) == [op |-> "set_orientation", i |-> i, j |-> j, k |-> k]

(* a mutated table: the calls of (Plus, Minus) whatever the tags *)
table_calls_untagged(left_tag, right_tag, valence) ==
    CASE valence = 3 -> <<O(2, 0, 1)>>
      [] valence = 4 -> <<E(1, 3), O(1, 3, 0)>>
      [] valence = 5 -> <<E(4, 1), E(1, 3), O(3, 1, 2), O(4, 1, 3)>>
      [] valence = 6 -> <<E(5, 1), E(3, 1), E(5, 3),
                          O(1, 5, 0), O(5, 3, 4), O(3, 1, 2)>>
      [] OTHER -> <<>>

(* Retriangulator.triangulate_table: the calls of each case, in order *)
table_calls(left_tag, right_tag, valence) ==
    IF left_tag = Plus /\ right_tag = Minus THEN
        CASE valence = 3 -> <<O(2, 0, 1)>>
          [] valence = 4 -> <<E(1, 3), O(1, 3, 0)>>
          [] valence = 5 -> <<E(4, 1), E(1, 3), O(3, 1, 2), O(4, 1, 3)>>
          [] valence = 6 -> <<E(5, 1), E(3, 1), E(5, 3),
                              O(1, 5, 0), O(5, 3, 4), O(3, 1, 2)>>
          [] OTHER -> <<>>
    ELSE IF left_tag = Minus /\ right_tag = Plus THEN
        CASE valence = 3 -> <<O(2, 0, 1)>>
          [] valence = 4 -> <<E(0, 2), O(0, 2, 3)>>
          [] valence = 5 -> <<E(1, 3), E(0, 3), O(0, 3, 4), O(3, 1, 2)>>
          [] valence = 6 -> <<E(0, 2), E(2, 4), E(0, 4),
                              O(0, 4, 5), O(2, 0, 1), O(4, 2, 3)>>
          [] OTHER -> <<>>
    ELSE IF left_tag = Plus /\ right_tag = Plus THEN
        CASE valence = 3 -> <<O(2, 0, 1)>>
          [] valence = 4 -> <<E(0, 2), O(0, 2, 3)>>
          [] valence = 5 -> <<E(0, 2), E(4, 2), O(2, 0, 1), O(4, 2, 3)>>
          [] valence = 6 -> <<E(0, 2), E(2, 4), E(0, 4),
                              O(0, 4, 5), O(2, 0, 1), O(4, 2, 3)>>
          [] OTHER -> <<>>
    ELSE
        CASE valence = 3 -> <<O(2, 0, 1)>>
          [] valence = 4 -> <<E(1, 3), O(1, 3, 0)>>
          [] valence = 5 -> <<E(1, 4), E(1, 3), O(2, 4, 0), O(3, 1, 2)>>
          [] valence = 6 -> <<E(5, 1), E(3, 1), E(5, 3),
                              O(1, 5, 0), O(5, 3, 4), O(3, 1, 2)>>
          [] OTHER -> <<>>

(* pov[i] with the source's 0-based index *)
At(pov, i) == pov[i + 1]

(* the third argument the table passes to set_orientation: the Vertex      *)
(* pov[k] itself, not a tuple                                              *)
table_orientation_arg(pov, k) == VertexArg(At(pov, k))

(* runs the calls in order; a raised exception ends the run *)
RECURSIVE run_calls(_, _, _)
run_calls(s, pov, calls) ==
    IF calls = <<>> THEN [s |-> s, exc |-> NoExc]
    ELSE LET c == Head(calls)
         IN  IF c.op = "add_edge"
             THEN run_calls(add_edge(s, At(pov, c.i), At(pov, c.j)).s,
                            pov, Tail(calls))
             ELSE LET r == set_orientation(s, At(pov, c.i), At(pov, c.j),
                                           table_orientation_arg(pov, c.k))
                  IN  IF r.exc # NoExc THEN [s |-> r.s, exc |-> r.exc]
                      ELSE run_calls(r.s, pov, Tail(calls))

(* a mutated triangulate_table: the front vertex is not removed *)
triangulate_table_keeps_front(s, front_vertex, pov, left_tag, right_tag, valence) ==
    run_calls(s, pov, table_calls(left_tag, right_tag, valence))

(* Retriangulator.triangulate_table *)
triangulate_table(s, front_vertex, pov, left_tag, right_tag, valence) ==
    LET s1 == remove_vertex(s, front_vertex, TRUE)
    IN  IF valence < 3 \/ valence > 6 THEN [s |-> s1, exc |-> NoExc]
        ELSE run_calls(s1, pov, table_calls(left_tag, right_tag, valence))

(* Retriangulator.retriangulate:                                           *)
(* [s |-> mesh state, tags |-> tag map, exc |-> raised, ret |-> whether    *)
(* the call returned True] after the call.  The method has no return       *)
(* statement: when it gets to its end it returns None.                     *)
retriangulate(s, tags, valence, gate, pov) ==
    IF ~(3 <= valence /\ valence <= 6) \/ Len(pov) # valence
    THEN [s |-> s, tags |-> tags, exc |-> AssertionError, ret |-> FALSE]
    ELSE LET left_tag == DictGet(tags, gate.edge[1], Default)
             right_tag == DictGet(tags, gate.edge[2], Default)
             tags1 == tag_propagation(tags, pov, left_tag, right_tag)
             r == triangulate_table(s, gate.front_vertex, pov,
                                    left_tag, right_tag, valence)
         IN  [s |-> r.s, tags |-> tags1, exc |-> r.exc, ret |-> FALSE]


-----------------------------------------------------------------------------
(* Entity identity (data_structures/vertex.py, data_structures/face.py)    *)
(* A Python object is a record: its class, its id (what "is" compares),    *)
(* and its fields.  A position is a triple of numbers.                     *)

Positions == {<<1, 2, 3>>, <<1, 3, 4>>, <<2, 1, 3>>, <<4, 3, 1>>}

VertexObj(id, position) ==
    [class |-> "Vertex", id |-> id, position |-> position, vertices |-> <<>>]

FaceObj(id, vertices) ==
    [class |-> "Face", id |-> id, position |-> <<>>, vertices |-> vertices]

(* A hash value is modelled by what it is computed from: a tuple t or the   *)
(* hashes m of the members of a frozenset.                                 *)
HashOfTuple(t) == [of |-> "tuple", t |-> t, m |-> {}]

HashOfFrozenset(m) == [of |-> "frozenset", t |-> <<>>, m |-> m]

(* Vertex.__hash__: hash(self.position) *)
Vertex_hash(v) == HashOfTuple(v.position)

(* Vertex.__eq__ *)
Vertex_eq(v, other) ==
    other.class = "Vertex" /\ v.position = other.position

(* set(vertices) and frozenset(vertices) of a tuple of Vertex objects: an   *)
(* object is kept unless one with the same hash that __eq__ accepts is     *)
(* already there                                                           *)
RECURSIVE vertex_set(_)
vertex_set(vertices) ==
    IF vertices = <<>> THEN <<>>
    ELSE LET front == vertex_set(SubSeq(vertices, 1, Len(vertices) - 1))
             v == vertices[Len(vertices)]
         IN  IF \E k \in 1..Len(front) :
                    Vertex_hash(front[k]) = Vertex_hash(v)
                       /\ Vertex_eq(front[k], v)
             THEN front
             ELSE Append(front, v)

(* == of two sets of Vertex objects *)
vertex_set_eq(A, B) ==
    /\ Len(A) = Len(B)
    /\ \A i \in 1..Len(A) : \E k \in 1..Len(B) :
          Vertex_hash(B[k]) = Vertex_hash(A[i]) /\ Vertex_eq(B[k], A[i])

(* Face.__hash__: hash(frozenset(self.vertices)), a function of the hashes  *)
(* of the members whatever their order                                     *)
Face_hash(f) ==
    LET members == vertex_set(f.vertices)
    IN  HashOfFrozenset({Vertex_hash(members[k]) : k \in 1..Len(members)})

(* a mutated Face.__eq__: the tuples are compared, position by position *)
Face_eq_ordered(f, other) ==
    /\ other.class = "Face"
    /\ \A k \in 1..3 : Vertex_eq(f.vertices[k], other.vertices[k])

(* Face.__eq__ *)
Face_eq(f, other) ==
    /\ other.class = "Face"
    /\ vertex_set_eq(vertex_set(f.vertices), vertex_set(other.vertices))

(* hash(x) and x == y as Python dispatches them on the class of x *)
py_hash(x) == IF x.class = "Vertex" THEN Vertex_hash(x) ELSE Face_hash(x)

py_eq(x, y) == IF x.class = "Vertex" THEN Vertex_eq(x, y) ELSE Face_eq(x, y)

(* A Python set under construction: added is every object passed to add(), *)
(* in order; elems is what the set holds.                                  *)
EmptyPySet == [added |-> <<>>, elems |-> <<>>]

(* set.add *)
set_add(ps, x) ==
    [added |-> Append(ps.added, x),
     elems |-> IF \E k \in 1..Len(ps.elems) :
                     py_hash(ps.elems[k]) = py_hash(x) /\ py_eq(ps.elems[k], x)
               THEN ps.elems
               ELSE Append(ps.elems, x)]

(* the objects a test can build: a Vertex at a position, a Face over three *)
(* Vertex objects at distinct positions in any order; each new object has  *)
(* its own id                                                              *)
NewObjects(id) ==
    {VertexObj(id, p) : p \in Positions}
      \cup {FaceObj(id, <<VertexObj(0, t[1]), VertexObj(0, t[2]),
                          VertexObj(0, t[3])>>) :
               t \in {t \in Positions \X Positions \X Positions :
                        Cardinality({t[1], t[2], t[3]}) = 3}}

(* s.add(x) on a new object x, as test_vertex_in_set and test_face_in_set  *)
(* do                                                                      *)
SetAddCall ==
    /\ Len(pyset.added) < MaxAdds
    /\ \E x \in NewObjects(Len(pyset.added) + 1) :
          pyset' = set_add(pyset, x)
    /\ UNCHANGED <<vertex_connections, orientations, committed_states,
                   retriangulation_tags, state_flags, passVars, pc, exc,
                   last, nops, input, parsed>>

-----------------------------------------------------------------------------
(* Loading (MeshTopology.from_obj_file, PCLTTM.parse_file) *)

(* An OBJ file: nv vertex lines, then the face lines, each face an         *)
(* oriented triple of vertex indices.                                      *)
ObjFile(nv, faces) == [nv |-> nv, faces |-> faces]

(* a mutated branch: add_edge is called for the first edge of the face only *)
load_face_first_edge(s, f) ==
    LET s1 == add_edge(s, f[1], f[2]).s
        s2 == set_orientation(s1, f[1], f[2], PairArg(f[3], None)).s
        s4 == set_orientation(s2, f[2], f[3], PairArg(f[1], None)).s
        s6 == set_orientation(s4, f[3], f[1], PairArg(f[2], None)).s
    IN  s6

(* the branch of from_obj_file taken for a Face element *)
load_face(s, f) ==
    LET s1 == add_edge(s, f[1], f[2]).s
        s2 == set_orientation(s1, f[1], f[2], PairArg(f[3], None)).s
        s3 == add_edge(s2, f[2], f[3]).s
        s4 == set_orientation(s3, f[2], f[3], PairArg(f[1], None)).s
        s5 == add_edge(s4, f[3], f[1]).s
        s6 == set_orientation(s5, f[3], f[1], PairArg(f[2], None)).s
    IN  s6

(* the elements ObjaReader.parse_file yields for a file, in file order:   *)
(* <<v>> for a vertex line, <<a, b, c>> for a face line                    *)
Elements(file) ==
    [i \in 1..file.nv |-> <<i>>] \o file.faces

(* one iteration of the loop of from_obj_file *)
load_element(s, elem) ==
    IF Len(elem) = 1 THEN add_vertex(s, elem[1]) ELSE load_face(s, elem)

(* Input meshes: closed, consistently oriented triangle meshes.            *)
(* The tetrahedron, and the bipyramid over an n-gon: ring 1..n, top n+1,   *)
(* bottom n+2 (n = 4 is the octahedron).                                   *)
Tetrahedron ==
    ObjFile(4, <<<<1, 2, 3>>, <<1, 3, 4>>, <<1, 4, 2>>, <<2, 4, 3>>>>)

Succ(i, n) == IF i = n THEN 1 ELSE i + 1

Bipyramid(n) ==
    ObjFile(n + 2,
            [k \in 1..(2 * n) |->
                IF k <= n THEN <<n + 1, k, Succ(k, n)>>
                ELSE <<n + 2, Succ(k - n, n), k - n>>])


(* the input mesh numbered n: the bipyramid over the n-gon for n >= 3, the *)
(* tetrahedron below                                                       *)
InputMesh(n) == IF n < 3 THEN Tetrahedron ELSE Bipyramid(n)

AllMeshes == 2..MaxGon

SmallMeshes == 2..MaxSmallGon

LoadMeshes == 2..MaxLoadGon

(* vertex arguments tried on a mesh: its vertices and one unknown vertex *)
VertexArgs(s) == Vertices(s) \cup {Cardinality(Vertices(s)) + 1}

Tags == {Default, Plus, Minus}

-----------------------------------------------------------------------------
(* The record of the last call: its arguments, what it returned, and the   *)
(* state it was made in.                                                   *)

NoCall ==
    [op |-> "none", a |-> None, b |-> None, c |-> None, force |-> FALSE,
     ret |-> FALSE, kind |-> "none", pre |-> EmptyState, pre_tags |-> <<>>,
     pov |-> <<>>, valence |-> 0, left_tag |-> Default, right_tag |-> Default,
     diff |-> <<{}, {}>>]

Call(op, a, b, c, force, ret) ==
    [NoCall EXCEPT !.op = op, !.a = a, !.b = b, !.c = c, !.force = force,
                   !.ret = ret, !.pre = ActiveState,
                   !.pre_tags = retriangulation_tags]

(* A fresh engine and mesh, about to parse file: committed_states holds   *)
(* the empty baseline state (MeshTopology.__init__)                        *)
Fresh(file) ==
    /\ vertex_connections = <<>>
    /\ orientations = <<>>
    /\ committed_states = <<EmptyState>>
    /\ retriangulation_tags = <<>>
    /\ state_flags = <<>>
    /\ FiFo = <<>>
    /\ visited_gates = {}
    /\ seed = NoGate
    /\ ngates = 0
    /\ passes = 0
    /\ pc = "parsing"
    /\ exc = NoExc
    /\ last = NoCall
    /\ nops = 0
    /\ input = Elements(file)
    /\ parsed = {}
    /\ pyset = EmptyPySet

Init == \E n \in SmallMeshes : Fresh(InputMesh(n))

(* a face line with its three indices rotated r places: the same oriented  *)
(* face, written from another of its vertices                              *)
Rotated(elem, r) ==
    IF Len(elem) = 1 THEN elem
    ELSE [k \in 1..3 |-> elem[((k - 1 + r) % 3) + 1]]

(* PCLTTM.parse_file, one element of the file per step: the element read   *)
(* is the i-th one left, written with rotation r.  After the last one      *)
(* every vertex is set Free and tagged Default.  parsed is the set of the  *)
(* elements read so far.                                                   *)
ParseStep(i, r) ==
    /\ pc = "parsing"
    /\ input # <<>>
    /\ i \in 1..Len(input)
    /\ LET elem == Rotated(input[i], r)
           rest == SubSeq(input, 1, i - 1) \o SubSeq(input, i + 1, Len(input))
           s == load_element(ActiveState, elem)
       IN  /\ vertex_connections' = s.vertex_connections
           /\ orientations' = s.orientations
           /\ IF rest = <<>>
              THEN /\ pc' = "ready"
                   /\ state_flags' = [v \in Vertices(s) |-> Free]
                   /\ retriangulation_tags' = [v \in Vertices(s) |-> Default]
              ELSE UNCHANGED <<pc, state_flags, retriangulation_tags>>
           /\ input' = rest
           /\ parsed' = parsed \cup {elem}
    /\ UNCHANGED <<committed_states, passVars, exc, last, nops, pyset>>

(* the file is read in the order it is written *)
ParseElement == ParseStep(1, 0)

(* the file lists its vertices first, then its faces in any order, each   *)
(* written from any of its three vertices                                  *)
ParseInAnyOrder ==
    \E i \in 1..Len(input), r \in 0..2 :
        /\ Len(input[1]) = 1 => i = 1
        /\ ParseStep(i, r)

SetMesh(s) ==
    /\ vertex_connections' = s.vertex_connections
    /\ orientations' = s.orientations

CanCall == pc = "ready" /\ exc = NoExc /\ nops < MaxOps

-----------------------------------------------------------------------------
(* Calls on the MeshTopology *)

AddVertexCall ==
    /\ CanCall
    /\ \E v \in VertexArgs(ActiveState) :
        /\ SetMesh(add_vertex(ActiveState, v))
        /\ last' = Call("add_vertex", v, None, None, FALSE, FALSE)
        /\ nops' = nops + 1
        /\ UNCHANGED <<committed_states, retriangulation_tags, state_flags,
                       passVars, pc, exc, input, parsed, pyset>>

AddEdgeCall ==
    /\ CanCall
    /\ \E a \in VertexArgs(ActiveState), b \in VertexArgs(ActiveState) :
        /\ a # b
        /\ SetMesh(add_edge(ActiveState, a, b).s)
        /\ last' = Call("add_edge", a, b, None, FALSE,
                        add_edge(ActiveState, a, b).ret)
        /\ nops' = nops + 1
        /\ UNCHANGED <<committed_states, retriangulation_tags, state_flags,
                       passVars, pc, exc, input, parsed, pyset>>

CanRemoveVertexCall ==
    /\ CanCall
    /\ \E v \in VertexArgs(ActiveState) :
        /\ last' = Call("can_remove_vertex", v, None, None, FALSE,
                        can_remove_vertex(ActiveState, v))
        /\ nops' = nops + 1
        /\ UNCHANGED <<meshVars, retriangulation_tags, state_flags,
                       passVars, pc, exc, input, parsed, pyset>>

RemoveVertexCall ==
    /\ CanCall
    /\ \E v \in VertexArgs(ActiveState), force \in BOOLEAN :
        /\ SetMesh(remove_vertex(ActiveState, v, force))
        /\ last' = Call("remove_vertex", v, None, None, force, FALSE)
        /\ nops' = nops + 1
        /\ UNCHANGED <<committed_states, retriangulation_tags, state_flags,
                       passVars, pc, exc, input, parsed, pyset>>

RemoveEdgeCall ==
    /\ CanCall
    /\ \E a \in VertexArgs(ActiveState), b \in VertexArgs(ActiveState),
       force \in BOOLEAN :
        /\ a # b
        /\ SetMesh(remove_edge(ActiveState, a, b, force))
        /\ last' = Call("remove_edge", a, b, None, force, FALSE)
        /\ nops' = nops + 1
        /\ UNCHANGED <<committed_states, retriangulation_tags, state_flags,
                       passVars, pc, exc, input, parsed, pyset>>

(* set_orientation(edge, (third, None)), the form from_obj_file uses *)
SetOrientationCall ==
    /\ CanCall
    /\ \E a \in VertexArgs(ActiveState), b \in VertexArgs(ActiveState),
       c \in Vertices(ActiveState) :
        /\ Cardinality({a, b, c}) = 3
        /\ LET r == set_orientation(ActiveState, a, b, PairArg(c, None))
           IN  /\ SetMesh(r.s)
               /\ last' = Call("set_orientation", a, b, c, FALSE, r.ret)
        /\ nops' = nops + 1
        /\ UNCHANGED <<committed_states, retriangulation_tags, state_flags,
                       passVars, pc, exc, input, parsed, pyset>>


-----------------------------------------------------------------------------
(* Transactions (MeshTopology.commit, rollback, State.compression_difference) *)

(* State.compression_difference: vertex_connections_to_add is filled from   *)
(* the vertices self lacks; the iterable of the second loop,                *)
(* self.orientations.keys().difference(...), then raises AttributeError, a  *)
(* dict view having no such method, whatever the two states are: the loop   *)
(* body never runs and nothing is returned.                                 *)
compression_difference(self, previous_state) ==
    LET vertex_to_add == Vertices(previous_state) \ Vertices(self)
    IN  [exc |-> AttributeError,
         vertex_connections_to_add |->
             [v \in vertex_to_add |-> previous_state.vertex_connections[v]],
         edges_to_remove |-> <<>>]

Rev(e) == <<e[2], e[1]>>

(* MeshTopology.commit: the diff is computed before the state is saved, so  *)
(* an exception of compression_difference leaves committed_states as it is  *)
CommitCall ==
    /\ CanCall
    /\ LET diff == compression_difference(
                        ActiveState, committed_states[Len(committed_states)])
       IN  /\ exc' = diff.exc
           /\ committed_states' =
                  IF diff.exc = NoExc
                  THEN Append(committed_states, ActiveState)
                  ELSE committed_states
           /\ last' = [Call("commit", None, None, None, FALSE, FALSE) EXCEPT
                         !.diff = IF diff.exc = NoExc
                                  THEN <<diff.vertex_connections_to_add,
                                         diff.edges_to_remove>>
                                  ELSE NoCall.diff]
    /\ nops' = nops + 1
    /\ UNCHANGED <<vertex_connections, orientations, retriangulation_tags,
                   state_flags, passVars, pc, input, parsed, pyset>>

(* a mutated rollback: the baseline snapshot is popped like any other *)
rollback_pops_baseline(committed, active_state) ==
    IF Len(committed) > 0
    THEN [committed_states |-> SubSeq(committed, 1, Len(committed) - 1),
          active_state |-> committed[Len(committed)],
          ret |-> TRUE]
    ELSE [committed_states |-> committed, active_state |-> active_state,
          ret |-> FALSE]

(* MeshTopology.rollback: the last snapshot is popped, and the active      *)
(* state becomes a copy of the one before it                                *)
rollback(committed, active_state) ==
    IF Len(committed) > 1
    THEN [committed_states |-> SubSeq(committed, 1, Len(committed) - 1),
          active_state |-> committed[Len(committed) - 1],
          ret |-> TRUE]
    ELSE [committed_states |-> committed, active_state |-> active_state,
          ret |-> FALSE]

RollbackCall ==
    /\ CanCall
    /\ LET r == rollback(committed_states, ActiveState)
       IN  /\ committed_states' = r.committed_states
           /\ SetMesh(r.active_state)
           /\ last' = Call("rollback", None, None, None, FALSE, r.ret)
    /\ nops' = nops + 1
    /\ UNCHANGED <<retriangulation_tags, state_flags, passVars,
                   pc, exc, input, parsed, pyset>>

-----------------------------------------------------------------------------
(* A retriangulation called the way the tests call it: the caller tags    *)
(* the gate's endpoints, takes the ring from the patch of the front vertex *)
(* and passes the front's valence.                                         *)

(* the gates of the mesh: an oriented edge with the apex on its left *)
GatesOf(s) ==
    {Gate(e, s.orientations[e][1]) :
        e \in {e \in DOMAIN s.orientations : s.orientations[e][1] # None}}

(* the rings the patch of center can give from starting_edge *)
RingsOf(s, center, starting_edge) ==
    UNION {surrounding_vertices(center, faces, starting_edge) :
             faces \in get_faces(s, center)}

RetriangulateCall ==
    /\ CanCall
    /\ \E gate \in GatesOf(ActiveState) :
      \E pov \in RingsOf(ActiveState, gate.front_vertex, gate.edge) :
       \E left_tag \in Tags, right_tag \in Tags :
        LET tags0 == DictPut(DictPut(retriangulation_tags,
                                     gate.edge[1], left_tag),
                             gate.edge[2], right_tag)
            valence == get_valence(ActiveState, gate.front_vertex)
            r == retriangulate(ActiveState, tags0, valence, gate, pov)
        IN  /\ SetMesh(r.s)
            /\ retriangulation_tags' = r.tags
            /\ exc' = r.exc
            /\ last' = [Call("retriangulate", gate.edge[1], gate.edge[2],
                             gate.front_vertex, TRUE, r.ret) EXCEPT
                          !.pre_tags = tags0, !.pov = pov,
                          !.valence = valence,
                          !.left_tag = left_tag, !.right_tag = right_tag]
            /\ nops' = nops + 1
            /\ UNCHANGED <<committed_states, state_flags, passVars, pc, input, parsed, pyset>>

-----------------------------------------------------------------------------
(* The conquest engine (PCLTTM.compress, PCLTTM._cleaning_phase) *)

(* The gate compress() starts from is built from three fixed positions     *)
(* (__initial_gate_for_test); which vertices of the input file lie there,  *)
(* if any, depends on the file: any three distinct vertex arguments.       *)
Seeds(s) ==
    {Gate(<<t[1], t[2]>>, t[3]) :
        t \in {t \in VertexArgs(s) \X VertexArgs(s) \X VertexArgs(s) :
                 t[1] # t[2] /\ t[1] # t[3] /\ t[2] # t[3]}}

RECURSIVE number_gates(_, _)
number_gates(gates, from) ==
    IF gates = <<>> THEN <<>>
    ELSE <<GateObj(Head(gates), from + 1)>>
             \o number_gates(Tail(gates), from + 1)

(* a mutated set_vertex_state: storing a flag resets the other vertices *)
set_vertex_state_resets(flags, v, state) ==
    [u \in DOMAIN flags \cup {v} |-> IF u = v THEN state ELSE Free]

(* a mutated set_vertex_state: the flag is not stored *)
set_vertex_state_skipped(flags, v, state) ==
    flags

(* PCLTTM.set_vertex_state *)
set_vertex_state(flags, v, state) ==
    DictPut(flags, v, state)

RECURSIVE conquer_edges(_, _)
conquer_edges(flags, gates) ==
    IF gates = <<>> THEN flags
    ELSE conquer_edges(
             DictPut(DictPut(flags, Head(gates).edge[1], Conquered),
                     Head(gates).edge[2], Conquered),
             Tail(gates))

(* the gates a null patch appends: across (left, center) on the left and   *)
(* across (center, right) on the right, when the vertex there is Free      *)
null_patch_gates(s, flags, left_vertex, center_vertex, right_vertex) ==
    LET oriented_v1 == get_oriented_vertices(s, <<left_vertex, center_vertex>>)
        oriented_v2 == get_oriented_vertices(s, <<center_vertex, right_vertex>>)
    IN  (IF oriented_v1[1] # None /\ DictGet(flags, oriented_v1[1], Free) = Free
         THEN <<Gate(<<left_vertex, center_vertex>>, oriented_v1[1])>>
         ELSE <<>>)
        \o
        (IF oriented_v2[2] # None /\ DictGet(flags, oriented_v2[2], Free) = Free
         THEN <<Gate(<<center_vertex, right_vertex>>, oriented_v2[2])>>
         ELSE <<>>)

(* a mutated valence test: the cleaning pass accepts what decimation does *)
valence_ok_same(cleaning, valence) == valence \in {3, 4, 5, 6}

(* the valence test of a pass: "valence in [3, 4, 5, 6]" in compress,       *)
(* "valence ==3" in _cleaning_phase                                         *)
valence_ok(cleaning, valence) ==
    IF cleaning THEN valence = 3 ELSE valence \in {3, 4, 5, 6}

(* compress() up to its loop: the seed's endpoints are tagged, the queue   *)
(* holds the seed gate; the flags are left as they are                     *)
StartCompress ==
    /\ pc = "ready"
    /\ exc = NoExc
    /\ passes < MaxPasses
    /\ \E g \in Seeds(ActiveState) :
        /\ seed = NoGate \/ seed = g
        /\ seed' = g
        /\ retriangulation_tags' =
              DictPut(DictPut(retriangulation_tags, g.edge[1], Minus),
                      g.edge[2], Plus)
        /\ FiFo' = <<GateObj(g, ngates + 1)>>
    /\ ngates' = ngates + 1
    /\ visited_gates' = {}
    /\ passes' = passes + 1
    /\ pc' = "decimation"
    /\ last' = Call("compress", None, None, None, FALSE, FALSE)
    /\ UNCHANGED <<meshVars, state_flags, exc, nops, input, parsed, pyset>>

(* One iteration of the while loop of a pass.  cleaning = FALSE is the     *)
(* loop of compress (valence 3..6, the last output gate is not enqueued);  *)
(* cleaning = TRUE is the loop of _cleaning_phase (valence 3, every output *)
(* gate is enqueued: "gate != out_gates[:-1]" compares a gate to a list).  *)
(* can_remove is "can_remove_vertex(center) or True"; last.ret keeps what  *)
(* can_remove_vertex returned.  patch.valence() is the valence of the      *)
(* center, at least 3 here, so the empty-patch branch is never taken.      *)
ConquestStep(cleaning) ==
    /\ exc = NoExc
    /\ FiFo # <<>>
    /\ LET current_gate == Head(FiFo)
           left_vertex == current_gate.edge[1]
           right_vertex == current_gate.edge[2]
           center_vertex == current_gate.front_vertex
           vertex_state == DictGet(state_flags, center_vertex, Free)
           valence == get_valence(ActiveState, center_vertex)
           step(kind) ==
               [Call("step", left_vertex, right_vertex, center_vertex, FALSE,
                     can_remove_vertex(ActiveState, center_vertex))
                  EXCEPT !.kind = kind, !.valence = valence]
       IN  IF vertex_state = Conquered \/ current_gate \in visited_gates
           THEN /\ FiFo' = Tail(FiFo)
                /\ last' = step("skip")
                /\ UNCHANGED <<meshVars, retriangulation_tags, state_flags,
                               visited_gates, ngates, exc>>
           ELSE IF vertex_state = Free /\ valence_ok(cleaning, valence)
           THEN \E faces \in get_faces(ActiveState, center_vertex) :
                \E patch_vertices \in
                      surrounding_vertices(center_vertex, faces,
                                           current_gate.edge) :
                  LET out_gates ==
                          number_gates(
                              output_gates(ActiveState, center_vertex,
                                           patch_vertices), ngates)
                      r == retriangulate(ActiveState, retriangulation_tags,
                                         valence, current_gate,
                                         patch_vertices)
                      kept == IF cleaning \/ out_gates = <<>> THEN out_gates
                              ELSE SubSeq(out_gates, 1, Len(out_gates) - 1)
                  IN  /\ SetMesh(r.s)
                      /\ retriangulation_tags' = r.tags
                      /\ exc' = r.exc
                      /\ visited_gates' = visited_gates \cup {current_gate}
                      /\ ngates' = ngates + Len(out_gates)
                      /\ last' = [step("removal") EXCEPT
                                    !.pov = patch_vertices]
                      /\ IF r.exc # NoExc
                         THEN /\ FiFo' = Tail(FiFo)
                              /\ UNCHANGED state_flags
                         ELSE /\ FiFo' = Tail(FiFo) \o kept
                              /\ state_flags' =
                                    set_vertex_state(
                                        conquer_edges(state_flags, out_gates),
                                        center_vertex, Conquered)
                      /\ UNCHANGED committed_states
           ELSE LET flags == set_vertex_state(state_flags, center_vertex,
                                              Conquered)
                    gates == number_gates(
                                 null_patch_gates(ActiveState, flags,
                                                  left_vertex, center_vertex,
                                                  right_vertex), ngates)
                IN  /\ state_flags' = flags
                    /\ FiFo' = Tail(FiFo) \o gates
                    /\ ngates' = ngates + Len(gates)
                    /\ visited_gates' = visited_gates \cup {current_gate}
                    /\ last' = step("null")
                    /\ UNCHANGED <<meshVars, retriangulation_tags, exc>>
    /\ UNCHANGED <<seed, passes, pc, nops, input, parsed, pyset>>

DecimationStep == pc = "decimation" /\ ConquestStep(FALSE)

CleaningStep == pc = "cleaning" /\ ConquestStep(TRUE)

(* the end of compress(): when the seed edge still has a vertex on one of  *)
(* its sides, the seed gate gets it as its front and _cleaning_phase       *)
(* starts: every tag back to Default, the seed's endpoints tagged, every   *)
(* flag back to Free; otherwise compress() returns                         *)
EndDecimation ==
    /\ pc = "decimation"
    /\ exc = NoExc
    /\ FiFo = <<>>
    /\ LET adjacent_vertex == get_oriented_vertices(ActiveState, seed.edge)
           new_front_vertex ==
               IF adjacent_vertex[1] # None THEN adjacent_vertex[1]
               ELSE adjacent_vertex[2]
           reset == [v \in DOMAIN retriangulation_tags |-> Default]
       IN  IF new_front_vertex # None
           THEN /\ retriangulation_tags' =
                      DictPut(DictPut(reset, seed.edge[1], Minus),
                              seed.edge[2], Plus)
                /\ FiFo' = <<GateObj(Gate(seed.edge, new_front_vertex),
                                     ngates + 1)>>
                /\ ngates' = ngates + 1
                /\ visited_gates' = {}
                /\ state_flags' = [v \in DOMAIN state_flags |-> Free]
                /\ pc' = "cleaning"
           ELSE /\ pc' = "ready"
                /\ UNCHANGED <<retriangulation_tags, FiFo, ngates,
                               visited_gates, state_flags>>
    /\ last' = Call("end_decimation", None, None, None, FALSE, FALSE)
    /\ UNCHANGED <<meshVars, seed, passes, exc, nops, input, parsed, pyset>>

(* _cleaning_phase returns, and compress() with it *)
EndCleaning ==
    /\ pc = "cleaning"
    /\ exc = NoExc
    /\ FiFo = <<>>
    /\ pc' = "ready"
    /\ last' = Call("end_cleaning", None, None, None, FALSE, FALSE)
    /\ UNCHANGED <<meshVars, retriangulation_tags, state_flags, passVars,
                   exc, nops, input, parsed, pyset>>


Next ==
    \/ ParseElement
    \/ AddVertexCall
    \/ AddEdgeCall
    \/ CanRemoveVertexCall
    \/ RemoveVertexCall
    \/ RemoveEdgeCall
    \/ SetOrientationCall
    \/ CommitCall
    \/ RollbackCall
    \/ RetriangulateCall

Spec == Init /\ [][Next]_vars

(* One retriangulation of a loaded mesh, the fronts of valence 3 to 6 *)
InitRetri == \E n \in AllMeshes : Fresh(InputMesh(n))

NextRetri ==
    \/ ParseElement
    \/ RetriangulateCall

SpecRetri == InitRetri /\ [][NextRetri]_vars

(* Sets of entities built outside any mesh, as the tests of identity do *)
InitIdentity == Fresh(ObjFile(0, <<>>))

NextIdentity == SetAddCall

SpecIdentity == InitIdentity /\ [][NextIdentity]_vars

(* Loading alone, the faces of the file in every order *)
InitLoad == \E n \in LoadMeshes : Fresh(InputMesh(n))

NextLoad == ParseInAnyOrder

SpecLoad == InitLoad /\ [][NextLoad]_vars

(* The engine: load, commit, compress, commit *)
NextEngine ==
    \/ ParseElement
    \/ CommitCall
    \/ StartCompress
    \/ DecimationStep
    \/ EndDecimation
    \/ CleaningStep
    \/ EndCleaning

SpecEngine == Init /\ [][NextEngine]_vars

(* compress() is sequential code: once called, its loops run on until they  *)
(* exit or a statement raises, so every step of a pass that can be taken is *)
(* taken.  When compress() is called is up to the caller: no fairness on    *)
(* StartCompress, CommitCall or the parsing.                                *)
SpecEngineLive ==
    /\ SpecEngine
    /\ WF_vars(DecimationStep)
    /\ WF_vars(EndDecimation)
    /\ WF_vars(CleaningStep)
    /\ WF_vars(EndCleaning)

-----------------------------------------------------------------------------
(* Properties *)

(* the undirected edges of the adjacency map *)
AdjEdges(s) ==
    UNION {{{a, b} : b \in s.vertex_connections[a]} : a \in Vertices(s)}

Swap(lr) == <<lr[2], lr[1]>>

(* C3: in every state of the mesh reached by loading and by calls of      *)
(* set_orientation, remove_vertex, remove_edge, add_edge and retriangulate,*)
(* every directed edge (a, b) that has an orientation entry has the entry  *)
(* (b, a) too, and get_oriented_vertices((a, b)) is                        *)
(* get_oriented_vertices((b, a)) with its two components swapped.          *)
C3_OrientationSymmetry ==
    \A e \in DOMAIN orientations :
        /\ Rev(e) \in DOMAIN orientations
        /\ get_oriented_vertices(ActiveState, e)
               = Swap(get_oriented_vertices(ActiveState, Rev(e)))

(* a call of remove_edge has deleted entries and entries remain *)
C3_Witness ==
    /\ last.op = "remove_edge"
    /\ DOMAIN orientations # {}
    /\ DOMAIN orientations # DOMAIN last.pre.orientations

(* C4: when remove_vertex(v) without force removes v, every vertex that    *)
(* was a neighbour of v just before the call has valence >= 3 after it.    *)
C4_RemovabilitySound ==
    (/\ last.op = "remove_vertex"
     /\ ~last.force
     /\ last.a \in Vertices(last.pre)
     /\ last.a \notin Vertices(ActiveState))
    => \A n \in get_connected_vertices(last.pre, last.a) :
          get_valence(ActiveState, n) >= 3

(* an unforced remove_vertex removed a vertex that had neighbours *)
C4_Witness ==
    /\ last.op = "remove_vertex"
    /\ ~last.force
    /\ last.a \in Vertices(last.pre)
    /\ last.a \notin Vertices(ActiveState)
    /\ get_connected_vertices(last.pre, last.a) # {}

FanRetriangulated ==
    /\ last.op = "retriangulate"
    /\ last.valence \in {3, 4, 5, 6}
    /\ Len(last.pov) = last.valence

(* a retriangulation of a closed fan whose gate endpoints are tagged *)
TaggedFan ==
    /\ FanRetriangulated
    /\ last.left_tag \in {Plus, Minus}
    /\ last.right_tag \in {Plus, Minus}

(* C2: in every mesh state reached by loading a closed manifold mesh and   *)
(* then performing decimation steps (the forced remove_vertex of the front *)
(* followed by the table retriangulation), every remaining vertex v has    *)
(* as many faces as get_faces(v) returns as it has neighbours, and that    *)
(* number is get_valence(v).                                               *)
C2_ValenceInvariant ==
    pc = "ready"
    => \A v \in Vertices(ActiveState) :
          /\ Cardinality(vertex_connections[v]) = get_valence(ActiveState, v)
          /\ \A faces \in get_faces(ActiveState, v) :
                Cardinality(faces) = Cardinality(vertex_connections[v])

(* the invariant on a mesh as loaded, before any decimation step *)
C2_Loaded ==
    /\ pc = "ready"
    /\ last.op = "none"
    /\ \A v \in Vertices(ActiveState) :
          \A faces \in get_faces(ActiveState, v) :
             Cardinality(faces) = get_valence(ActiveState, v)

(* the diagonals of each case as pairs of ring positions, counted from 0 *)
C7_Diagonals(left_tag, right_tag, valence) ==
    IF valence = 3 THEN {}
    ELSE IF left_tag = Minus /\ right_tag = Plus
    THEN CASE valence = 4 -> {<<0, 2>>}
           [] valence = 5 -> {<<1, 3>>, <<0, 3>>}
           [] valence = 6 -> {<<0, 2>>, <<2, 4>>, <<0, 4>>}
    ELSE IF left_tag = Plus /\ right_tag = Plus
    THEN CASE valence = 4 -> {<<0, 2>>}
           [] valence = 5 -> {<<0, 2>>, <<2, 4>>}
           [] valence = 6 -> {<<0, 2>>, <<2, 4>>, <<0, 4>>}
    ELSE CASE valence = 4 -> {<<1, 3>>}
           [] valence = 5 -> {<<1, 4>>, <<1, 3>>}
           [] valence = 6 -> {<<1, 5>>, <<1, 3>>, <<3, 5>>}

(* C7: a retriangulation is determined by the mesh state, the gate, the    *)
(* ring order, the valence and the tags of the two gate endpoints; the     *)
(* diagonals it adds, as pairs of ring positions, depend on (left_tag,     *)
(* right_tag, valence) only: after the call the adjacency is the one       *)
(* before it without the front vertex, plus the diagonals of the case.     *)
C7_DiagonalsByTags ==
    FanRetriangulated
    => AdjEdges(ActiveState) =
          {e \in AdjEdges(last.pre) : last.c \notin e}
          \cup {{At(last.pov, d[1]), At(last.pov, d[2])} :
                  d \in C7_Diagonals(last.left_tag, last.right_tag,
                                     last.valence)}

(* a front of valence 6 was retriangulated: three diagonals *)
C7_Witness ==
    /\ FanRetriangulated
    /\ last.valence = 6
    /\ last.c \notin Vertices(ActiveState)
    /\ Cardinality(AdjEdges(ActiveState)
                     \ {e \in AdjEdges(last.pre) : last.c \notin e}) = 3

(* the ring edges of the retriangulated hole, directed along the ring: the *)
(* removed front was on their left                                         *)
RingEdges == {<<last.pov[i], last.pov[Succ(i, Len(last.pov))]>> :
                i \in 1..Len(last.pov)}

(* the adjacency edges the call added *)
AddedEdges == AdjEdges(ActiveState) \ AdjEdges(last.pre)

(* the added edges, in both directions *)
DiagonalEdges == {e \in Range(last.pov) \X Range(last.pov) :
                    {e[1], e[2]} \in AddedEdges}

(* the vertex on the left of the directed edge e *)
LeftApex(e) == get_oriented_vertices(ActiveState, e)[1]

(* C8: for a front of valence v in 3..6 whose star is a simple closed fan  *)
(* and tags in {Plus, Minus} on the gate, the retriangulation adds exactly *)
(* v-3 adjacency edges, each between two ring vertices that are not        *)
(* consecutive, adds no vertex, and leaves exactly v-2 triangles over the  *)
(* hole with consistent orientation entries: the inner apex of every ring  *)
(* edge and both apexes of every diagonal are ring vertices, and the three *)
(* directed edges of each triangle agree on it.                            *)
C8_TableRetriangulation ==
    TaggedFan
    => /\ Cardinality(AddedEdges) = last.valence - 3
       /\ \A d \in AddedEdges :
             \E i \in 1..last.valence, j \in 1..last.valence :
                /\ d = {last.pov[i], last.pov[j]}
                /\ i # j
                /\ j # Succ(i, last.valence)
                /\ i # Succ(j, last.valence)
       /\ Vertices(ActiveState) \subseteq Vertices(last.pre)
       /\ \A e \in RingEdges \cup DiagonalEdges :
             /\ LeftApex(e) \in Range(last.pov)
             /\ LeftApex(<<e[2], LeftApex(e)>>) = e[1]
             /\ LeftApex(<<LeftApex(e), e[1]>>) = e[2]
       /\ Cardinality({{e[1], e[2], LeftApex(e)} :
                          e \in RingEdges \cup DiagonalEdges})
              = last.valence - 2

(* C9: retriangulating a front of valence 3 with ring [L, R, V1] gives,    *)
(* for each of the four tag combinations, the same result: no edge is      *)
(* added, the front is no longer a vertex, and the hole is closed by the   *)
(* triangle (L, R, V1), so get_oriented_vertices((L, R))[0] is V1.         *)
C9_Valence3Triangle ==
    (TaggedFan /\ last.valence = 3)
    => /\ AddedEdges = {}
       /\ last.c \notin Vertices(ActiveState)
       /\ get_oriented_vertices(ActiveState,
                                <<last.pov[1], last.pov[2]>>)[1]
              = last.pov[3]

(* C10: retriangulating a front of valence 4 with ring [L, R, V1, V2]      *)
(* leaves get_oriented_vertices((L, R))[0] equal to V1 when (left_tag,     *)
(* right_tag) is (Plus, Minus) or (Minus, Minus), and to V2 when it is     *)
(* (Minus, Plus) or (Plus, Plus).                                          *)
C10_Valence4Apex ==
    (TaggedFan /\ last.valence = 4)
    => get_oriented_vertices(ActiveState,
                             <<last.pov[1], last.pov[2]>>)[1]
          = IF last.right_tag = Minus THEN last.pov[3] ELSE last.pov[4]

(* C6: in a pass, when the front vertex of the dequeued gate has a         *)
(* neighbour of valence <= 3 (can_remove_vertex is false), the engine does *)
(* not remove it: the gate is handled as a null patch and the step leaves  *)
(* the mesh unchanged.                                                     *)
C6_NoRemovalWhenNotRemovable ==
    (/\ last.op = "step"
     /\ last.kind # "skip"
     /\ \E n \in get_connected_vertices(last.pre, last.c) :
           get_valence(last.pre, n) <= 3)
    => /\ last.kind = "null"
       /\ ActiveState = last.pre

(* the face list run_obja.print_initial_model collects from get_faces,     *)
(* over the vertices vs: the set of the lists it can collect, as sets      *)
RECURSIVE collect_faces(_, _)
collect_faces(s, vs) ==
    IF vs = {} THEN {{}}
    ELSE LET v == CHOOSE v \in vs : TRUE
         IN  {F \cup G : F \in get_faces(s, v),
                         G \in collect_faces(s, vs \ {v})}

(* the replay of run_obja.main: the left and the right face of every edge  *)
(* of edge_diffs are deleted, then the faces of the patch each vertex of   *)
(* vertex_diffs had in the previous state are added                        *)
replay_diff(faces, vertex_diffs, edge_diffs, previous_state) ==
    {(faces \ UNION {{Face(e[1], e[2], edge_diffs[e][1]),
                      Face(e[2], e[1], edge_diffs[e][2])} :
                        e \in DOMAIN edge_diffs})
        \cup added :
        added \in collect_faces(previous_state, DOMAIN vertex_diffs)}

(* the last committed state *)
LastCommitted == committed_states[Len(committed_states)]

(* the committed state before the last *)
PreviousCommitted == committed_states[Len(committed_states) - 1]

(* C1: for a closed manifold mesh state S0 saved by commit(), after a pass  *)
(* has produced a state S1, commit() saves S1 and returns the diff (V, E),  *)
(* and replaying that diff on the face set of S1 (delete the left and the   *)
(* right face of every edge of E, then add every face of the star each      *)
(* vertex of V had in S0) gives exactly the face set of S0, as unordered    *)
(* vertex triples.                                                          *)
C1_RoundTrip ==
    last.op = "commit"
    => /\ exc = NoExc
       /\ LastCommitted = ActiveState
       /\ Len(committed_states) > 2
          => \A faces1 \in collect_faces(ActiveState, Vertices(ActiveState)) :
                replay_diff(faces1, last.diff[1], last.diff[2],
                            PreviousCommitted)
                   = collect_faces(PreviousCommitted,
                                   Vertices(PreviousCommitted))

(* commit() was called on a loaded mesh *)
C1_Committed ==
    /\ last.op = "commit"
    /\ Vertices(ActiveState) # {}

(* C11: retriangulating a front of valence 6 with ring [L, R, v1, v2, v3,  *)
(* v4], left_tag = Minus and right_tag = Plus gives exactly 4 triangles     *)
(* that form a fan from L: three diagonals are added, all incident to L,    *)
(* and get_oriented_vertices((L, R))[0] is then v1, the ring vertex next    *)
(* to R.                                                                    *)
C11_HexagonFan ==
    (/\ FanRetriangulated
     /\ last.valence = 6
     /\ last.left_tag = Minus
     /\ last.right_tag = Plus)
    => /\ Cardinality(AddedEdges) = 3
       /\ \A d \in AddedEdges : last.pov[1] \in d
       /\ Cardinality({{e[1], e[2], LeftApex(e)} :
                          e \in RingEdges \cup DiagonalEdges}) = 4
       /\ LeftApex(<<last.pov[1], last.pov[2]>>) = last.pov[3]

(* the front vertex of the last call is gone and nothing else is: it is no  *)
(* key of the vertex map, in no adjacency set, and every other vertex of    *)
(* the state before the call is still a vertex                              *)
FrontRemoved ==
    /\ last.c \notin Vertices(ActiveState)
    /\ \A v \in Vertices(ActiveState) : last.c \notin vertex_connections[v]
    /\ Vertices(ActiveState) = Vertices(last.pre) \ {last.c}
    /\ Cardinality(Vertices(ActiveState))
           = Cardinality(Vertices(last.pre)) - 1

(* C12: retriangulate(mesh, valence, gate, ring), called with a valence in  *)
(* 3..6 and a ring of valence vertices, removes exactly the front vertex of *)
(* the gate: afterwards the front is absent from the vertex map and from    *)
(* every adjacency set, every other vertex is still present, and there is   *)
(* exactly one vertex less.                                                 *)
C12_RemovesFront ==
    FanRetriangulated => FrontRemoved

(* a front with neighbours was retriangulated away *)
C12_Witness ==
    /\ FanRetriangulated
    /\ last.c \in Vertices(last.pre)
    /\ get_connected_vertices(last.pre, last.c) # {}
    /\ last.c \notin Vertices(ActiveState)

(* C13: tag propagation on a ring [L, R, v1..vk] never changes the tag of  *)
(* a vertex that already carries Plus or Minus: the tags of the gate        *)
(* endpoints L and R and of every ring vertex tagged before are the same    *)
(* after the call, and the vertices whose tag changed are ring vertices     *)
(* that were Default.                                                       *)
C13_TagsNotOverwritten ==
    FanRetriangulated
    => \A v \in DOMAIN last.pre_tags \cup DOMAIN retriangulation_tags :
          LET before == DictGet(last.pre_tags, v, Default)
              after == DictGet(retriangulation_tags, v, Default)
          IN  /\ before \in {Plus, Minus} => after = before
              /\ after # before
                 => v \in Range(last.pov) /\ before = Default

(* C14: for a ring of valence 3 or 5 entered with left_tag = Plus and       *)
(* right_tag = Minus, the alternation starts from the tag Minus: the tags   *)
(* written along ring[1:-1] are Plus, Minus, Plus, ... in that order.       *)
C14_OddValenceStartsMinus ==
    (/\ FanRetriangulated
     /\ last.valence \in {3, 5}
     /\ last.left_tag = Plus
     /\ last.right_tag = Minus)
    => /\ start_of(last.left_tag, last.right_tag).tag = Minus
       /\ \A i \in 2..(last.valence - 1) :
             retriangulation_tags[last.pov[i]]
                = IF i % 2 = 0 THEN Plus ELSE Minus

(* a ring of valence 5 was entered with (Plus, Minus) *)
C14_Witness ==
    /\ FanRetriangulated
    /\ last.valence = 5
    /\ last.left_tag = Plus
    /\ last.right_tag = Minus
    /\ retriangulation_tags # last.pre_tags

(* a pass is dequeuing: the next step of the engine pops the head of FiFo *)
Dequeuing ==
    /\ pc \in {"decimation", "cleaning"}
    /\ exc = NoExc
    /\ FiFo # <<>>

(* the front of the gate about to be dequeued, its flag, and the test of    *)
(* the running pass on it: Free, and valence 3..6 (decimation) or 3         *)
(* (cleaning)                                                               *)
FrontOfHead == Head(FiFo).front_vertex

FlagOfFront == DictGet(state_flags, FrontOfHead, Free)

FrontPassesTest ==
    /\ FlagOfFront = Free
    /\ IF pc = "cleaning"
       THEN get_valence(ActiveState, FrontOfHead) = 3
       ELSE get_valence(ActiveState, FrontOfHead) \in {3, 4, 5, 6}

(* the step handles the dequeued gate as a null patch: the front becomes    *)
(* Conquered, the mesh is not touched, and the gates towards the Free       *)
(* vertices across the two edges of the front are enqueued                  *)
NullPatchHandled ==
    /\ state_flags' = DictPut(state_flags, FrontOfHead, Conquered)
    /\ ActiveState' = ActiveState
    /\ FiFo' = Tail(FiFo)
                \o number_gates(
                       null_patch_gates(ActiveState, state_flags',
                                        Head(FiFo).edge[1], FrontOfHead,
                                        Head(FiFo).edge[2]), ngates)

(* the step discards the dequeued gate: nothing changes but the queue *)
GateDiscarded ==
    /\ FiFo' = Tail(FiFo)
    /\ UNCHANGED <<meshVars, state_flags, retriangulation_tags>>

(* a step of a pass removes a vertex only if it is the front of the gate it *)
(* dequeues and that front passes the test of the pass                      *)
RemovalOnlyIfTestPassed ==
    (pc \in {"decimation", "cleaning"}
       /\ Vertices(ActiveState') # Vertices(ActiveState))
    => /\ Dequeuing
       /\ Vertices(ActiveState') = Vertices(ActiveState) \ {FrontOfHead}
       /\ FrontPassesTest

(* C15: a vertex is removed during the decimation pass only if, when its    *)
(* gate was dequeued, its flag was Free and its valence was in {3,4,5,6},   *)
(* and during the cleaning pass only if its flag was Free and its valence   *)
(* was 3; a dequeued gate whose front is Free but fails the valence test is *)
(* handled as a null patch, and a dequeued gate whose front is Conquered is *)
(* discarded with no other change.                                          *)
C15_RemovalGuard ==
    [][/\ RemovalOnlyIfTestPassed
       /\ (Dequeuing /\ ~FrontPassesTest /\ FlagOfFront = Free)
             => NullPatchHandled
       /\ (Dequeuing /\ FlagOfFront = Conquered) => GateDiscarded]_vars

(* C15 as stated: every dequeued gate whose front fails the test, a         *)
(* Conquered front included, is handled as a null patch                     *)
C15_EveryFailureIsNullPatch ==
    [][/\ RemovalOnlyIfTestPassed
       /\ (Dequeuing /\ ~FrontPassesTest) => NullPatchHandled]_vars

(* a cleaning step has handled a Free front of valence other than 3 as a    *)
(* null patch and enqueued a gate                                           *)
C15_Witness ==
    /\ pc = "cleaning"
    /\ last.op = "step"
    /\ last.kind = "null"
    /\ last.valence > 3
    /\ FiFo # <<>>

(* C16: on a finite closed manifold mesh and any seed gate, a pass          *)
(* (decimation or cleaning) eventually reaches an empty gate queue and      *)
(* ends: compress() returns.  The model has no iteration cap.               *)
C16_PassTerminates ==
    (pc \in {"decimation", "cleaning"})
       ~> (pc = "ready" /\ exc = NoExc /\ FiFo = <<>>)

(* a pass has stopped on an exception with gates still in its queue *)
C16_Stopped ==
    /\ pc \in {"decimation", "cleaning"}
    /\ exc # NoExc
    /\ FiFo # <<>>

(* the face lines read from the file *)
InputFaces == {elem \in parsed : Len(elem) = 3}

(* C17: after loading a consistently oriented closed triangle mesh, for    *)
(* every input face (v0, v1, v2) and every i, the left vertex of the       *)
(* directed edge (v_i, v_i+1) is v_i+2, whatever the order in which the    *)
(* faces were inserted.                                                    *)
C17_LoadedOrientations ==
    pc = "ready" =>
        \A f \in InputFaces : \A i \in 1..3 :
            get_oriented_vertices(ActiveState,
                                  <<f[i], f[Succ(i, 3)]>>)[1]
                = f[Succ(Succ(i, 3), 3)]

(* a triangular bipyramid loaded with some face written from another      *)
(* vertex than its apex                                                    *)
C17_Witness ==
    /\ pc = "ready"
    /\ Cardinality(Vertices(ActiveState)) = 5
    /\ \E f \in InputFaces : f[1] \notin {4, 5}

(* the vertex lines read from the file *)
InputVertices == {elem[1] : elem \in {e \in parsed : Len(e) = 1}}

(* C18: after loading, every input vertex is a key of the adjacency map,   *)
(* and for every input face each of its three vertices has the other two   *)
(* in its adjacency set.                                                   *)
C18_LoadedAdjacency ==
    pc = "ready" =>
        /\ InputVertices \subseteq DOMAIN vertex_connections
        /\ \A f \in InputFaces : \A i \in 1..3 :
               /\ f[i] \in DOMAIN vertex_connections
               /\ {f[k] : k \in 1..3} \ {f[i]}
                      \subseteq vertex_connections[f[i]]

(* a whole file has been loaded: its vertex lines and at least four faces *)
C18_Witness ==
    /\ pc = "ready"
    /\ input = <<>>
    /\ Cardinality(InputVertices) >= 4
    /\ Cardinality(InputFaces) >= 4

(* C19: commit() returns a diff relative to the previously committed state *)
(* made of the vertices present in that state and absent from the active   *)
(* state and of the directed edges present in that state and absent from   *)
(* the active state; it then appends a copy of the active state as the new *)
(* last committed state.                                                   *)
C19_CommitDiff ==
    last.op = "commit" =>
        /\ exc = NoExc
        /\ committed_states[Len(committed_states)] = ActiveState
        /\ Len(committed_states) > 1
        /\ DOMAIN last.diff[1]
              = Vertices(PreviousCommitted) \ Vertices(ActiveState)
        /\ DOMAIN last.diff[2]
              = DOMAIN PreviousCommitted.orientations
                   \ DOMAIN ActiveState.orientations

(* commit() has been called on a mesh some vertex was removed from *)
C19_CommittedAfterRemoval ==
    /\ last.op = "commit"
    /\ Cardinality(Vertices(ActiveState)) \in {3, 4, 5}
    /\ \E v \in Vertices(ActiveState) : v > Cardinality(Vertices(ActiveState))

(* C20: commit/rollback is transactional: once commit() has been called in *)
(* the active state S, a rollback() with no further commit returns true    *)
(* and makes S the active state again (here: the rollback that follows the *)
(* commit at once, the sequence of changes being empty).                   *)
C20_Transactional ==
    last.op = "commit" =>
        LET r == rollback(committed_states, ActiveState)
        IN  /\ r.ret
            /\ r.active_state = last.pre

(* commit() has been called on a loaded mesh *)
C20_CommitCalled ==
    /\ last.op = "commit"
    /\ last.pre = ActiveState
    /\ Cardinality(Vertices(last.pre)) >= 4

(* a step that is a call of rollback() *)
RollbackStep == last'.op = "rollback" /\ nops' = nops + 1

(* C21: the committed-state sequence always contains at least the baseline *)
(* snapshot; rollback() returns false exactly when only the baseline       *)
(* remains, and in that case neither the active state nor the committed    *)
(* sequence is changed.                                                    *)
C21_RollbackBaseline ==
    [][ /\ Len(committed_states') >= 1
        /\ committed_states'[1] = EmptyState
        /\ RollbackStep =>
              /\ last'.ret = FALSE <=> Len(committed_states) = 1
              /\ Len(committed_states) = 1 =>
                    /\ ActiveState' = ActiveState
                    /\ committed_states' = committed_states ]_vars

(* rollback() has returned false on a mesh changed since it was loaded *)
C21_Witness ==
    /\ last.op = "rollback"
    /\ last.ret = FALSE
    /\ nops = 2
    /\ Vertices(ActiveState) # {}
    /\ Len(committed_states) = 1

(* the last call was given an endpoint that is not a vertex of the mesh *)
UnknownEndpoint ==
    \/ last.a \notin Vertices(last.pre)
    \/ last.b \notin Vertices(last.pre)

(* C22: add_edge(a, b) and set_orientation((a, b), apex) return false and  *)
(* leave the adjacency and orientation maps unchanged whenever a or b is   *)
(* not a vertex of the mesh.                                               *)
C22_UnknownEndpointNoOp ==
    (last.op \in {"add_edge", "set_orientation"} /\ UnknownEndpoint) =>
        /\ last.ret = FALSE
        /\ exc = NoExc
        /\ ActiveState = last.pre

(* set_orientation has been called towards an unknown vertex, on a mesh    *)
(* that has orientations to lose                                           *)
C22_Witness ==
    /\ last.op = "set_orientation"
    /\ last.a \in Vertices(last.pre)
    /\ last.b \notin Vertices(last.pre)
    /\ DOMAIN last.pre.orientations # {}

(* add_edge has been called from a known vertex to an unknown one *)
C22_WitnessAddEdge ==
    /\ last.op = "add_edge"
    /\ last.a \in Vertices(last.pre)
    /\ last.b \notin Vertices(last.pre)

(* C23: remove_vertex(v, force=false) leaves the adjacency and orientation *)
(* maps unchanged whenever can_remove_vertex(v) is false; with or without  *)
(* force, it is a no-op when v is not a vertex of the mesh.                *)
C23_RefusedRemovalNoOp ==
    (/\ last.op = "remove_vertex"
     /\ \/ ~last.force /\ ~can_remove_vertex(last.pre, last.a)
        \/ last.a \notin Vertices(last.pre)) =>
        /\ ActiveState = last.pre
        /\ exc = NoExc

(* remove_vertex without force has been called on a vertex of the mesh     *)
(* that can_remove_vertex rejects                                          *)
C23_Witness ==
    /\ last.op = "remove_vertex"
    /\ ~last.force
    /\ last.a \in Vertices(last.pre)
    /\ ~can_remove_vertex(last.pre, last.a)

(* remove_vertex with force has been called on an unknown vertex *)
C23_WitnessUnknown ==
    /\ last.op = "remove_vertex"
    /\ last.force
    /\ last.a \notin Vertices(last.pre)

(* the left and the right apex stored for a directed edge *)
LeftOf(s, a, b) == get_oriented_vertices(s, <<a, b>>)[1]
RightOf(s, a, b) == get_oriented_vertices(s, <<a, b>>)[2]

(* C24: after set_orientation((a, b), apex) returns true, the triangle     *)
(* (a, b, apex) is recorded on its six directed-edge slots: the left apex  *)
(* of (a, b) is apex, of (b, apex) is a, of (apex, a) is b, and the right  *)
(* apex of (b, a) is apex, of (apex, b) is a, of (a, apex) is b; the apex  *)
(* stored for the face on the other side of the edge (a, b) is unchanged.  *)
C24_SixSlots ==
    (last.op = "set_orientation" /\ last.ret) =>
        LET a == last.a
            b == last.b
            apex == last.c
        IN  /\ LeftOf(ActiveState, a, b) = apex
            /\ LeftOf(ActiveState, b, apex) = a
            /\ LeftOf(ActiveState, apex, a) = b
            /\ RightOf(ActiveState, b, a) = apex
            /\ RightOf(ActiveState, apex, b) = a
            /\ RightOf(ActiveState, a, apex) = b
            /\ RightOf(ActiveState, a, b) = RightOf(last.pre, a, b)
            /\ LeftOf(ActiveState, b, a) = LeftOf(last.pre, b, a)

(* set_orientation has returned true on an edge with a face on its other   *)
(* side, giving it an apex it did not have                                 *)
C24_Witness ==
    /\ last.op = "set_orientation"
    /\ last.ret
    /\ RightOf(last.pre, last.a, last.b) # None
    /\ LeftOf(last.pre, last.a, last.b) # last.c

(* C25: adjacency is symmetric and closed in every reachable state: after  *)
(* any sequence of add_vertex, add_edge, remove_vertex, remove_edge and    *)
(* retriangulate, v is in adjacency[u] if and only if u is in adjacency[v],*)
(* and every vertex in some adjacency set is a key of the adjacency map.   *)
C25_AdjacencySymmetricClosed ==
    \A u \in DOMAIN vertex_connections :
        \A v \in vertex_connections[u] :
            /\ v \in DOMAIN vertex_connections
            /\ u \in vertex_connections[v]

(* a vertex that had neighbours has been removed, after another call *)
C25_Witness ==
    /\ last.op \in {"remove_vertex", "retriangulate"}
    /\ nops = 2
    /\ \E v \in Vertices(last.pre) \ Vertices(ActiveState) :
           last.pre.vertex_connections[v] # {}

(* C26: retriangulate returns True whenever it is called with a valence in *)
(* 3..6 and a ring of that length: it completes the removal and the        *)
(* retriangulation.                                                        *)
C26_ReturnsTrue ==
    (/\ last.op = "retriangulate"
     /\ last.valence \in 3..6
     /\ Len(last.pov) = last.valence) =>
        /\ exc = NoExc
        /\ last.ret = TRUE

(* retriangulate has been called on a front of valence 3 with its ring of  *)
(* three vertices                                                          *)
C26_Called ==
    /\ last.op = "retriangulate"
    /\ last.valence = 3
    /\ Len(last.pov) = 3
    /\ last.c \notin Vertices(ActiveState)

(* what identifies an entity structurally: the coordinate triple of a      *)
(* Vertex, the set of the coordinate triples of the vertices of a Face     *)
StructureOf(x) ==
    IF x.class = "Vertex" THEN <<"Vertex", x.position, {}>>
    ELSE <<"Face", <<>>,
           {x.vertices[k].position : k \in 1..Len(x.vertices)}>>

(* C27: two Vertex values with the same coordinate triple are equal and    *)
(* occupy one slot in a set; two Face values over the same three vertices  *)
(* are equal and hash alike whatever the order in which their vertices are *)
(* listed; a set of faces holds one element per vertex set.                *)
C27_StructuralIdentity ==
    /\ \A i, j \in 1..Len(pyset.added) :
          StructureOf(pyset.added[i]) = StructureOf(pyset.added[j]) =>
              /\ py_eq(pyset.added[i], pyset.added[j])
              /\ py_hash(pyset.added[i]) = py_hash(pyset.added[j])
    /\ Len(pyset.elems)
          = Cardinality({StructureOf(pyset.added[i]) :
                           i \in 1..Len(pyset.added)})

(* three faces over one vertex set, listed in three different orders, have *)
(* been added to a set                                                     *)
C27_Witness ==
    /\ Len(pyset.added) = 3
    /\ \A i \in 1..3 : pyset.added[i].class = "Face"
    /\ \A i, j \in 1..3 :
          /\ StructureOf(pyset.added[i]) = StructureOf(pyset.added[j])
          /\ i # j => pyset.added[i].vertices # pyset.added[j].vertices

(* the gates a step puts on the queue: gates are numbered as they are made *)
Enqueued == {FiFo'[k] : k \in {k \in 1..Len(FiFo') : FiFo'[k].id > ngates}}

(* the front of the gate is the vertex stored on the left of its edge *)
WellFormedGate(s, g) == LeftOf(s, g.edge[1], g.edge[2]) = g.front_vertex

(* a step of a pass that takes a well-formed gate from the queue *)
TakesWellFormedGate ==
    /\ pc \in {"decimation", "cleaning"}
    /\ FiFo # <<>>
    /\ WellFormedGate(ActiveState, Head(FiFo))

(* C28: every gate put on the queue (the seed of a pass, the output gates  *)
(* of a removed patch, the gates created on a null patch) satisfies, when  *)
(* it is enqueued, get_oriented_vertices(gate.edge)[0] = gate.front_vertex,*)
(* and its front is never one of the two endpoints of the gate it was      *)
(* derived from.  The seed of the decimation pass is the caller's; gates   *)
(* derived from a gate that is not well-formed are left out.               *)
C28_GatesWellFormed ==
    [][ /\ (pc = "decimation" /\ FiFo = <<>>) =>
              \A g \in Enqueued : WellFormedGate(ActiveState', g)
        /\ TakesWellFormedGate =>
              \A g \in Enqueued :
                  /\ WellFormedGate(ActiveState', g)
                  /\ g.front_vertex \notin {Head(FiFo).edge[1],
                                            Head(FiFo).edge[2]} ]_vars

(* a null patch on a well-formed gate has put two gates on the queue *)
C28_NullPatchEnqueued ==
    /\ last.op = "step"
    /\ last.kind = "null"
    /\ LeftOf(ActiveState, last.a, last.b) = last.c
    /\ Len(FiFo) >= 2
    /\ FiFo[Len(FiFo)].edge = <<last.c, last.b>>

(* a step of a pass that removes the front vertex of the gate it takes *)
RemovalStep ==
    /\ pc \in {"decimation", "cleaning"}
    /\ FiFo # <<>>
    /\ last'.op = "step"
    /\ last'.kind = "removal"

(* C29: when a front vertex of valence n is removed on a closed manifold   *)
(* mesh, exactly n-1 gates are enqueued, one for each edge of the boundary *)
(* ring other than the entry edge, in the decimation pass and in the       *)
(* cleaning pass alike.                                                    *)
C29_OutputGatesEnqueued ==
    [][ RemovalStep => Cardinality(Enqueued) = last'.valence - 1 ]_vars

(* a step of the decimation pass has gone for the removal of a front of    *)
(* valence 4 whose patch has output gates                                  *)
C29_RemovalTried ==
    /\ pc = "decimation"
    /\ last.op = "step"
    /\ last.kind = "removal"
    /\ last.valence = 4
    /\ Len(last.pov) = 4
    /\ last.c \notin Vertices(ActiveState)

(* C30: immediately after the engine removes a front vertex, every vertex  *)
(* of its boundary ring, the two endpoints of the entry gate included, has *)
(* the flag Conquered.                                                     *)
C30_RingConquered ==
    (/\ last.op = "step"
     /\ last.kind = "removal"
     /\ last.c \notin Vertices(ActiveState)) =>
        \A v \in Range(last.pov) \cup {last.a, last.b} :
            DictGet(state_flags, v, Free) = Conquered

(* the engine has removed a front vertex of valence 3 in the cleaning pass *)
C30_FrontRemoved ==
    /\ pc = "cleaning"
    /\ last.op = "step"
    /\ last.kind = "removal"
    /\ last.valence = 3
    /\ last.c \in Vertices(last.pre)
    /\ last.c \notin Vertices(ActiveState)

(* C31: a null-patch step marks the gate's front vertex Conquered and      *)
(* changes nothing in the mesh: the vertex set, the adjacency map, the     *)
(* orientation map and the retriangulation tags are the same after the     *)
(* step as before it.                                                      *)
C31_NullPatchFrame ==
    (last.op = "step" /\ last.kind = "null") =>
        /\ DictGet(state_flags, last.c, Free) = Conquered
        /\ ActiveState = last.pre
        /\ retriangulation_tags = last.pre_tags
        /\ exc = NoExc

(* a null patch has been made on a vertex of the mesh that was Free *)
C31_Witness ==
    /\ last.op = "step"
    /\ last.kind = "null"
    /\ last.c \in Vertices(ActiveState)
    /\ DOMAIN orientations # {}
    /\ \E v \in DOMAIN retriangulation_tags :
           retriangulation_tags[v] # Default

(* a step inside one pass *)
InPass == pc \in {"decimation", "cleaning"} /\ pc' = pc

(* C32: Conquered is terminal within a pass: once a vertex's flag is       *)
(* Conquered it never returns to Free before the pass ends, and a vertex   *)
(* that is Conquered is never removed from the mesh during that pass.      *)
C32_ConqueredTerminal ==
    [][ InPass =>
          \A v \in DOMAIN state_flags :
              state_flags[v] = Conquered =>
                  /\ DictGet(state_flags', v, Free) = Conquered
                  /\ v \in Vertices(ActiveState) =>
                        v \in Vertices(ActiveState') ]_vars

(* a gate whose front is a Conquered vertex of the mesh has been taken     *)
(* from the queue, other vertices of the mesh being Conquered too          *)
C32_Witness ==
    /\ last.op = "step"
    /\ last.kind = "skip"
    /\ last.c \in Vertices(ActiveState)
    /\ DictGet(state_flags, last.c, Free) = Conquered
    /\ Cardinality({v \in Vertices(ActiveState) :
                       DictGet(state_flags, v, Free) = Conquered}) >= 3

(* a pass has been set up and its first gate is about to be dequeued *)
PassStarts ==
    /\ pc \in {"decimation", "cleaning"}
    /\ last.op \in {"compress", "end_decimation"}

(* C33: at the moment the first gate of any pass is dequeued, every        *)
(* vertex of the mesh has the flag Free: for the cleaning pass that        *)
(* follows a decimation pass, and for a decimation pass started by calling *)
(* compress again on an engine that has already run.                       *)
C33_FlagsFreeAtPassStart ==
    PassStarts =>
        \A v \in Vertices(ActiveState) : DictGet(state_flags, v, Free) = Free

(* compress() has been called again on an engine whose first call returned *)
C33_SecondCompress ==
    /\ pc = "decimation"
    /\ last.op = "compress"
    /\ passes = 2
    /\ exc = NoExc

(* the edges and the vertices of the link of center in a set of faces *)
LinkEdges(center, faces) == {f \ {center} : f \in faces}

LinkVertices(center, faces) == UNION LinkEdges(center, faces)

(* the vertices joined to those of S by the edges, S included *)
RECURSIVE Joined(_, _)
Joined(S, edges) ==
    LET T == S \cup UNION {e \in edges : e \cap S # {}}
    IN  IF T = S THEN S ELSE Joined(T, edges)

(* the star of center in s is a simple closed fan made of the faces: every *)
(* neighbour of center is on the link, the link is one cycle               *)
IsClosedFan(s, center, faces) ==
    /\ Cardinality(faces) >= 3
    /\ \A f \in faces : center \in f /\ Cardinality(f) = 3
    /\ LinkVertices(center, faces) = get_connected_vertices(s, center)
    /\ Cardinality(LinkVertices(center, faces)) = Cardinality(faces)
    /\ \A v \in LinkVertices(center, faces) :
          Cardinality({e \in LinkEdges(center, faces) : v \in e}) = 2
    /\ \A v \in LinkVertices(center, faces) :
          Joined({v}, LinkEdges(center, faces)) = LinkVertices(center, faces)

(* the list is a ring of the fan that starts with the entry edge *)
IsRingOf(s, center, faces, a, b, sq) ==
    /\ Len(sq) = Cardinality(faces)
    /\ \A i, j \in 1..Len(sq) : i # j => sq[i] # sq[j]
    /\ sq[1] = a
    /\ sq[2] = b
    /\ Range(sq) = get_connected_vertices(s, center)
    /\ \A i \in 1..Len(sq) :
          Face(sq[i], sq[Succ(i, Len(sq))], center) \in faces

(* C34: for a center whose star is a simple closed fan of n faces and an   *)
(* entry edge (a, b) such that (a, b, center) is a face of the star,       *)
(* surrounding_vertices((a, b)) returns n pairwise distinct vertices,      *)
(* beginning a, b, that are adjacency[center] as a set, every cyclically   *)
(* consecutive pair forming a face of the star with the center.            *)
C34_RingOfClosedFan ==
    \A center \in Vertices(ActiveState) :
      \A faces \in get_faces(ActiveState, center) :
        IsClosedFan(ActiveState, center, faces) =>
          \A a \in LinkVertices(center, faces),
             b \in LinkVertices(center, faces) :
              Face(a, b, center) \in faces =>
                \A sq \in surrounding_vertices(center, faces, <<a, b>>) :
                    IsRingOf(ActiveState, center, faces, a, b, sq)

(* a loaded mesh has a vertex whose star is a closed fan of six faces, and *)
(* another one whose star is a closed fan of four                          *)
C34_Witness ==
    /\ pc = "ready"
    /\ \E center \in Vertices(ActiveState) :
          \E faces \in get_faces(ActiveState, center) :
              /\ IsClosedFan(ActiveState, center, faces)
              /\ Cardinality(faces) = 6
    /\ \E center \in Vertices(ActiveState) :
          \E faces \in get_faces(ActiveState, center) :
              /\ IsClosedFan(ActiveState, center, faces)
              /\ Cardinality(faces) = 4

(* every key of the orientation map of s is a directed edge of s *)
OrientationKeysAreEdges(s) ==
    \A e \in DOMAIN s.orientations :
        /\ e[1] \in Vertices(s)
        /\ e[2] \in Vertices(s)
        /\ e[2] \in get_connected_vertices(s, e[1])

(* the file is loaded and no call has raised: the state after load, or     *)
(* after a decimation step that ran to its end                             *)
LoadedOrStepCompleted ==
    /\ pc # "parsing"
    /\ exc = NoExc

(* C36: orientation entries exist only for real edges: after load and      *)
(* after every completed decimation step, each directed edge (a, b) that   *)
(* is a key of the orientation map has a and b present as vertices and b   *)
(* in adjacency[a].                                                        *)
C36_OrientationKeysReal ==
    LoadedOrStepCompleted => OrientationKeysAreEdges(ActiveState)

(* a decimation step ran to its end on a loaded mesh with orientations *)
C36_Witness ==
    /\ LoadedOrStepCompleted
    /\ last.op = "step"
    /\ DOMAIN orientations # {}

(* the gate dequeued by the last step was the seed gate of the pass *)
DequeuedSeed ==
    /\ last.op = "step"
    /\ seed # NoGate
    /\ <<last.a, last.b>> = seed.edge

(* the edge of the gate the last step dequeued was an edge of the mesh the *)
(* step found                                                              *)
DequeuedEdgeIsReal ==
    /\ last.a \in Vertices(last.pre)
    /\ last.b \in Vertices(last.pre)
    /\ last.b \in get_connected_vertices(last.pre, last.a)

(* C37: whenever a gate is dequeued during a pass, the seed gate included, *)
(* both endpoints of its edge are vertices of the mesh and adjacent to     *)
(* each other.                                                             *)
C37_DequeuedEdgeInMesh ==
    last.op = "step" => DequeuedEdgeIsReal

(* the seed gate is dequeued and an endpoint of its edge is no vertex of   *)
(* the mesh                                                                *)
C37_SeedOffMesh ==
    /\ DequeuedSeed
    /\ last.a \notin Vertices(last.pre)

(* C38: calling commit() twice in a row with no mutation in between       *)
(* returns, from the second call, an empty diff (no vertices and no        *)
(* edges), and the two snapshots left at the end of the committed sequence *)
(* are equal (here: the second call is made in the state the first left).  *)
C38_SecondCommitEmpty ==
    last.op = "commit" =>
        LET second == compression_difference(ActiveState, LastCommitted)
            committed == IF second.exc = NoExc
                         THEN Append(committed_states, ActiveState)
                         ELSE committed_states
        IN  /\ second.exc = NoExc
            /\ second.vertex_connections_to_add = <<>>
            /\ second.edges_to_remove = <<>>
            /\ Len(committed) >= 3
            /\ committed[Len(committed)] = committed[Len(committed) - 1]

(* commit() was called on a loaded mesh and saved nothing *)
C38_NothingSaved ==
    /\ last.op = "commit"
    /\ pc = "ready"
    /\ exc = AttributeError
    /\ Len(committed_states) = 1

====
